---- MODULE Spec2Model ----
(***************************************************************************)
(* Model of core/crates/heavy-lifting/src/file_identifier/mod.rs:          *)
(* the chunker dispatch_object_processor_tasks, the merge                  *)
(* accumulate_file_paths_by_cas_id, the orphan filters and                 *)
(* FileMetadata::new, together with the object processor and the job       *)
(* driver that use them.                                                   *)
(***************************************************************************)
EXTENDS Integers, Sequences, FiniteSets, TLC

(***************************************************************************)
(* Program constant and bounds of the model                                *)
(***************************************************************************)

\* const CHUNK_SIZE: usize = 100
CHUNK_SIZE == 100

\* longest input sequence handed to dispatch_object_processor_tasks
MaxGroups == 3

\* content identifiers (CasId values)
CasIds == {"h1", "h2", "h3"}

\* lengths of the record lists of the input pairs: empty, one, just under,
\* exactly at and just over the threshold
GroupLens == {0, 1, CHUNK_SIZE - 1, CHUNK_SIZE, CHUNK_SIZE + 1}

(***************************************************************************)
(* Helpers on maps (HashMap<CasId, Vec<FilePathToCreateOrLinkObject>>)      *)
(***************************************************************************)

\* HashMap::new()
EmptyMap == [c \in {} |-> <<>>]

\* the sequence a, a+1, ..., a+n-1: the records of one input pair
Run(a, n) == [i \in 1..n |-> a + i - 1]

RECURSIVE SumLens(_, _)
\* sum of the list lengths of map m over the keys ks
SumLens(m, ks) ==
  IF ks = {} THEN 0
  ELSE LET k == CHOOSE x \in ks : TRUE
       IN Len(m[k]) + SumLens(m, ks \ {k})

\* number of records held by a unit or by the accumulator
MapCount(m) == SumLens(m, DOMAIN m)

\* set of the elements of a sequence
Elems(s) == {s[i] : i \in 1..Len(s)}

\* set of the records held by a map
MapRecords(m) == UNION {Elems(m[k]) : k \in DOMAIN m}

(***************************************************************************)
(* dispatch_object_processor_tasks                                         *)
(***************************************************************************)

VARIABLES
  input,               \* file_paths_by_cas_id: the sequence of (cas_id, paths)
  pos,                 \* number of pairs the for loop has consumed
  current_batch,       \* HashMap cas_id -> Vec of records
  current_batch_size,  \* running total
  tasks,               \* the units dispatched so far, in dispatch order
  pc,                  \* "loop" | "done"
  file_path,           \* the path-record table: id -> row
  object,              \* the content-object table: id -> content id
  fs,                  \* the file behind each path record
  units,               \* the object processor units in flight
  job,                 \* the job driver: state, cursor, accumulator, ...
  saved,               \* the serialized resumable state, when there is one
  hist                 \* the initial rows and what each run did

chunkVars == <<input, pos, current_batch, current_batch_size, tasks, pc>>

storeVars == <<file_path, object, fs, units, job, saved, hist>>

vars == <<chunkVars, storeVars>>

\* Option<T>
None == <<>>

Some(x) == <<x>>

\* the store, the units and the job while only the chunker is looked at
StoreIdle ==
  /\ file_path = <<>>
  /\ object = <<>>
  /\ fs = <<>>
  /\ units = <<>>
  /\ job = [state |-> "Idle"]
  /\ saved = None
  /\ hist = <<>>

\* a strict comparison in place of >=
IsStandaloneStrict(paths) == Len(paths) > CHUNK_SIZE

\* if objects_to_create_or_link.len() >= CHUNK_SIZE
IsStandalone(paths) == Len(paths) >= CHUNK_SIZE

\* HashMap::from([(cas_id, objects_to_create_or_link)])
StandaloneUnit(cas_id, paths) == cas_id :> paths

\* an insert that overwrites an occupied entry in place of extending it
ExtendBatchOverwrite(batch, cas_id, paths) ==
  [c \in DOMAIN batch \cup {cas_id} |-> IF c = cas_id THEN paths ELSE batch[c]]

\* match current_batch.entry(cas_id) { Occupied => extend, Vacant => insert }
ExtendBatch(batch, cas_id, paths) ==
  IF cas_id \in DOMAIN batch
  THEN [batch EXCEPT ![cas_id] = @ \o paths]
  ELSE batch @@ (cas_id :> paths)

\* a threshold one record too low
BatchIsFullEarly(size) == size >= CHUNK_SIZE - 1

\* a strict comparison in place of >=
BatchIsFullLate(size) == size > CHUNK_SIZE

\* if current_batch_size >= CHUNK_SIZE
BatchIsFull(size) == size >= CHUNK_SIZE

\* a clone in place of mem::take: the accumulator keeps its groups
TakenBatchKept(batch) == batch

\* mem::take(&mut current_batch): what is left in current_batch
TakenBatch(batch) == EmptyMap

\* the input pairs: every sequence of at most MaxGroups pairs, the records
\* numbered consecutively so that no record occurs twice in the input
RECURSIVE Number(_, _)
Number(shape, first) ==
  IF shape = <<>> THEN <<>>
  ELSE <<[cas_id |-> Head(shape)[1], paths |-> Run(first, Head(shape)[2])]>>
       \o Number(Tail(shape), first + Head(shape)[2])

Shapes == UNION {[1..n -> CasIds \X GroupLens] : n \in 0..MaxGroups}

Init ==
  /\ \E shape \in Shapes : input = Number(shape, 1)
  /\ pos = 0
  /\ current_batch = EmptyMap
  /\ current_batch_size = 0
  /\ tasks = <<>>
  /\ pc = "loop"
  /\ StoreIdle

\* loop body, first branch: the group is dispatched alone
DispatchStandalone ==
  /\ pc = "loop"
  /\ pos < Len(input)
  /\ LET p == input[pos + 1]
     IN /\ IsStandalone(p.paths)
        /\ tasks' = Append(tasks, StandaloneUnit(p.cas_id, p.paths))
  /\ pos' = pos + 1
  /\ UNCHANGED <<input, current_batch, current_batch_size, pc>>
  /\ UNCHANGED storeVars

\* loop body, else branch, threshold not reached
Accumulate ==
  /\ pc = "loop"
  /\ pos < Len(input)
  /\ LET p == input[pos + 1]
         size == current_batch_size + Len(p.paths)
     IN /\ ~IsStandalone(p.paths)
        /\ ~BatchIsFull(size)
        /\ current_batch' = ExtendBatch(current_batch, p.cas_id, p.paths)
        /\ current_batch_size' = size
  /\ pos' = pos + 1
  /\ UNCHANGED <<input, tasks, pc>>
  /\ UNCHANGED storeVars

\* loop body, else branch, threshold reached: the accumulator is flushed
AccumulateAndFlush ==
  /\ pc = "loop"
  /\ pos < Len(input)
  /\ LET p == input[pos + 1]
         size == current_batch_size + Len(p.paths)
         batch == ExtendBatch(current_batch, p.cas_id, p.paths)
     IN /\ ~IsStandalone(p.paths)
        /\ BatchIsFull(size)
        /\ tasks' = Append(tasks, batch)
        /\ current_batch' = TakenBatch(batch)
        /\ current_batch_size' = 0
  /\ pos' = pos + 1
  /\ UNCHANGED <<input, pc>>
  /\ UNCHANGED storeVars

\* after the loop: if !current_batch.is_empty() { dispatch it }
FlushLeftover ==
  /\ pc = "loop"
  /\ pos = Len(input)
  /\ DOMAIN current_batch # {}
  /\ tasks' = Append(tasks, current_batch)
  /\ pc' = "done"
  /\ UNCHANGED <<input, pos, current_batch, current_batch_size>>
  /\ UNCHANGED storeVars

\* after the loop with an empty accumulator: tasks is returned as it is
ReturnTasks ==
  /\ pc = "loop"
  /\ pos = Len(input)
  /\ DOMAIN current_batch = {}
  /\ pc' = "done"
  /\ UNCHANGED <<input, pos, current_batch, current_batch_size, tasks>>
  /\ UNCHANGED storeVars

Next ==
  \/ DispatchStandalone
  \/ Accumulate
  \/ AccumulateAndFlush
  \/ FlushLeftover
  \/ ReturnTasks

Spec == Init /\ [][Next]_vars

(***************************************************************************)
(* dispatch_object_processor_tasks and accumulate_file_paths_by_cas_id as   *)
(* functions, for the job driver that calls them                           *)
(***************************************************************************)

RECURSIVE DispatchLoop(_, _, _, _)
\* the for loop over the pairs still to come, then the leftover flush
DispatchLoop(rest, batch, size, out) ==
  IF rest = <<>>
  THEN IF DOMAIN batch # {} THEN Append(out, batch) ELSE out
  ELSE LET p == Head(rest)
           b == ExtendBatch(batch, p.cas_id, p.paths)
           n == size + Len(p.paths)
       IN IF IsStandalone(p.paths)
          THEN DispatchLoop(Tail(rest), batch, size,
                            Append(out, StandaloneUnit(p.cas_id, p.paths)))
          ELSE IF BatchIsFull(n)
               THEN DispatchLoop(Tail(rest), TakenBatch(b), 0, Append(out, b))
               ELSE DispatchLoop(Tail(rest), b, n, out)

\* the units dispatch_object_processor_tasks dispatches for the given pairs
dispatch_object_processor_tasks(file_paths_by_cas_id) ==
  DispatchLoop(file_paths_by_cas_id, EmptyMap, 0, <<>>)

\* an insert that overwrites an occupied entry in place of extending it
AccumulateEntryOverwrite(accumulator, cas_id, file_paths) ==
  [c \in DOMAIN accumulator \cup {cas_id} |->
     IF c = cas_id THEN file_paths ELSE accumulator[c]]

\* match accumulator.entry(cas_id) { Occupied => extend, Vacant => insert }
AccumulateEntry(accumulator, cas_id, file_paths) ==
  IF cas_id \in DOMAIN accumulator
  THEN [accumulator EXCEPT ![cas_id] = @ \o file_paths]
  ELSE accumulator @@ (cas_id :> file_paths)

RECURSIVE AccumulateLoop(_, _, _)
\* for (cas_id, file_paths) in input, over the keys still to come
AccumulateLoop(inp, keys, accumulator) ==
  IF keys = {} THEN accumulator
  ELSE LET c == CHOOSE k \in keys : TRUE
       IN AccumulateLoop(inp, keys \ {c},
                         AccumulateEntry(accumulator, c, inp[c]))

\* the accumulator after accumulate_file_paths_by_cas_id(input, &mut accumulator)
accumulate_file_paths_by_cas_id(inp, accumulator) ==
  AccumulateLoop(inp, DOMAIN inp, accumulator)

(***************************************************************************)
(* FileMetadata::new                                                       *)
(***************************************************************************)

\* A file is [path, meta, is_dir, len, hash, read, kind]: where it lies,
\* whether fs::metadata succeeds, what it reports, the content identifier
\* generate_cas_id derives from the bytes and the length, whether reading the
\* bytes succeeds, and the kind Extension::resolve_conflicting finds (None
\* when it fails).

\* location_path.as_ref().join(iso_file_path): the directory names of the
\* record and then its own name, for which its id stands
FilePath(row) == Append(row.materialized_path[1], row.id)

\* FileIOError::from((&path, e))
IoError(path) ==
  [tag |-> "Err", cas_id |-> None, kind |-> "Unknown", path |-> Some(path)]

\* the assert! on fs_metadata.is_dir() fails
AssertPanic ==
  [tag |-> "Panic", cas_id |-> None, kind |-> "Unknown", path |-> None]

\* Ok(Self { cas_id, kind, fs_metadata })
OkMetadata(cas_id, kind) ==
  [tag |-> "Ok", cas_id |-> cas_id, kind |-> kind, path |-> None]

\* the length test dropped: a cas id is generated for an empty file too
FileMetadata_new_NoLenTest(f) ==
  IF f.meta = "err" THEN IoError(f.path)
  ELSE IF f.is_dir THEN AssertPanic
  ELSE LET kind == IF f.kind = None THEN "Unknown" ELSE f.kind[1]
       IN IF f.read = "err"
          THEN IoError(f.path)
          ELSE OkMetadata(Some(f.hash), kind)

\* the classification propagated with ? in place of map_or(Unknown)
FileMetadata_new_KindFails(f) ==
  IF f.meta = "err" THEN IoError(f.path)
  ELSE IF f.is_dir THEN AssertPanic
  ELSE IF f.kind = None THEN IoError(f.path)
  ELSE IF f.len # 0
       THEN IF f.read = "err"
            THEN IoError(f.path)
            ELSE OkMetadata(Some(f.hash), f.kind[1])
       ELSE OkMetadata(None, f.kind[1])

\* Result<FileMetadata, FileIOError>, or the panic of the assert!
FileMetadata_new(f) ==
  IF f.meta = "err" THEN IoError(f.path)
  ELSE IF f.is_dir THEN AssertPanic
  ELSE LET kind == IF f.kind = None THEN "Unknown" ELSE f.kind[1]
       IN IF f.len # 0
          THEN IF f.read = "err"
               THEN IoError(f.path)
               ELSE OkMetadata(Some(f.hash), kind)
          ELSE OkMetadata(None, kind)

(***************************************************************************)
(* orphan_path_filters_shallow and orphan_path_filters_deep                *)
(***************************************************************************)

RECURSIVE ShiftRightBytes(_, _)
\* n >> (8 * k)
ShiftRightBytes(n, k) ==
  IF k = 0 THEN n ELSE ShiftRightBytes(n \div 256, k - 1)

\* u64::to_be_bytes().to_vec(): the eight bytes, most significant first
to_be_bytes(n) == [i \in 1..8 |-> ShiftRightBytes(n, 8 - i) % 256]

\* IsolatedFilePathData::materialized_path_for_children: the path the
\* children of a directory carry, None for a file.  A path is the sequence
\* of its directory names, so "/a/b/" is <<"a", "b">>.
materialized_path_for_children(iso) ==
  IF iso.is_dir THEN Some(iso.path) ELSE None

\* materialized_path::equals in place of materialized_path::starts_with
starts_with_exact(path, prefix) == path = prefix

\* String::starts_with on materialized paths
starts_with(path, prefix) ==
  /\ Len(prefix) <= Len(path)
  /\ SubSeq(path, 1, Len(prefix)) = prefix

\* both fields required to be absent: an and in place of the or!
IsOrphanBoth(row) == row.object_id = None /\ row.cas_id = None

\* object_id::not(None) in place of object_id::equals(None)
IsOrphanNegated(row) == row.object_id # None \/ row.cas_id = None

\* or!(object_id::equals(None), cas_id::equals(None))
IsOrphan(row) == row.object_id = None \/ row.cas_id = None

\* the zero written as 0u32: four bytes, which no stored size equals
SizeIsNotZeroU32(row) ==
  /\ row.size_in_bytes_bytes # None
  /\ row.size_in_bytes_bytes # Some(SubSeq(to_be_bytes(0), 1, 4))

\* size_in_bytes_bytes::not(Some(0u64.to_be_bytes().to_vec()))
SizeIsNotZero(row) ==
  /\ row.size_in_bytes_bytes # None
  /\ row.size_in_bytes_bytes # Some(to_be_bytes(0))

\* the optional cursor parameter left out of the chain
AfterCursorDropped(file_path_id, row) == TRUE

\* id::gte in place of id::gt
AfterCursorInclusive(file_path_id, row) ==
  file_path_id # None => row.id >= file_path_id[1]

\* file_path_id.map(file_path::id::gt)
AfterCursor(file_path_id, row) ==
  file_path_id # None => row.id > file_path_id[1]

\* whether a row satisfies every WhereParam orphan_path_filters_shallow returns
orphan_path_filters_shallow(location_id, file_path_id, sub_iso_file_path, row) ==
  /\ IsOrphan(row)
  /\ row.is_dir = Some(FALSE)
  /\ row.location_id = Some(location_id)
  /\ materialized_path_for_children(sub_iso_file_path) # None
  /\ row.materialized_path = materialized_path_for_children(sub_iso_file_path)
  /\ SizeIsNotZero(row)
  /\ AfterCursor(file_path_id, row)

\* whether a row satisfies every WhereParam orphan_path_filters_deep returns
orphan_path_filters_deep(location_id, file_path_id, maybe_sub_iso_file_path, row) ==
  /\ IsOrphan(row)
  /\ row.is_dir = Some(FALSE)
  /\ row.location_id = Some(location_id)
  /\ SizeIsNotZero(row)
  /\ AfterCursor(file_path_id, row)
  /\ maybe_sub_iso_file_path # None =>
       /\ materialized_path_for_children(maybe_sub_iso_file_path[1]) # None
       /\ row.materialized_path # None
       /\ starts_with(row.materialized_path[1],
                      materialized_path_for_children(maybe_sub_iso_file_path[1])[1])

(***************************************************************************)
(* The store and the object processor (tasks::ObjectProcessor)              *)
(***************************************************************************)

\* number of path records the concurrent units of SpecProc work on
MaxProcPaths == 3

\* the units that run concurrently in SpecProc
UnitIds == {1, 2}

\* the content identifiers the units of SpecProc carry
ProcCasIds == {"h1", "h2"}

\* a path record that was indexed and not identified yet
OrphanRow(id) ==
  [id |-> id, location_id |-> Some(1), is_dir |-> Some(FALSE),
   materialized_path |-> Some(<<"a">>),
   size_in_bytes_bytes |-> Some(to_be_bytes(5)),
   cas_id |-> None, object_id |-> None]

\* what a run has done so far, the rows the first run and the current run
\* started from, and the pages the orphan query of the current run returned
NoHistory(rows) ==
  [rows0 |-> rows, run |-> 1, returned |-> {}, dispatched |-> 0,
   creates |-> 0, links |-> 0, interrupts |-> 0, conflicts |-> 0,
   leftover |-> {}, pages |-> <<>>, start |-> rows]

\* a unit as ObjectProcessor::new builds it: nothing processed yet
NewUnit(groups) ==
  [groups |-> groups, done |-> {}, cur |-> None, phase |-> "idle",
   found |-> None]

\* the content object with the given content id, if the table has one
FindObject(objects, cas_id) ==
  IF \E i \in DOMAIN objects : objects[i] = cas_id
  THEN Some(CHOOSE i \in DOMAIN objects : objects[i] = cas_id)
  ELSE None

\* a store without the uniqueness constraint on the content id
UniqueViolationOff(objects, cas_id) == FALSE

\* the uniqueness constraint of the content-object table on the content id
UniqueViolation(objects, cas_id) == FindObject(objects, cas_id) # None

\* a new row of the content-object table
InsertObject(objects, cas_id) == Append(objects, cas_id)

\* every record of the group gets the object and the content id
LinkRows(rows, paths, cas_id, object_id) ==
  [r \in DOMAIN rows |->
     IF r \in Elems(paths)
     THEN [rows[r] EXCEPT !.cas_id = Some(cas_id), !.object_id = Some(object_id)]
     ELSE rows[r]]

\* a unit takes its next content id and looks the object up
LookupObject(u) ==
  /\ units[u].phase = "idle"
  /\ \E c \in DOMAIN units[u].groups \ units[u].done :
       LET f == FindObject(object, c)
       IN units' = [units EXCEPT ![u].cur = Some(c), ![u].found = f,
                                 ![u].phase = IF f = None THEN "create" ELSE "link"]
  /\ UNCHANGED <<chunkVars, file_path, object, fs, job, saved, hist>>

\* not found: the unit creates the object
CreateObject(u) ==
  /\ units[u].phase = "create"
  /\ ~UniqueViolation(object, units[u].cur[1])
  /\ object' = InsertObject(object, units[u].cur[1])
  /\ units' = [units EXCEPT ![u].found = Some(Len(object')), ![u].phase = "link"]
  /\ hist' = [hist EXCEPT !.creates = @ + 1]
  /\ UNCHANGED <<chunkVars, file_path, fs, job, saved>>

\* not found, but another unit created the object in between: the store
\* refuses the second object
CreateConflict(u) ==
  /\ units[u].phase = "create"
  /\ UniqueViolation(object, units[u].cur[1])
  /\ units' = [units EXCEPT ![u].phase = "refetch"]
  /\ hist' = [hist EXCEPT !.conflicts = @ + 1]
  /\ UNCHANGED <<chunkVars, file_path, object, fs, job, saved>>

\* after a conflict the unit fetches the object that exists now
RefetchObject(u) ==
  /\ units[u].phase = "refetch"
  /\ units' = [units EXCEPT ![u].found = FindObject(object, units[u].cur[1]),
                            ![u].phase = "link"]
  /\ UNCHANGED <<chunkVars, file_path, object, fs, job, saved, hist>>

\* the unit links every record of the group to the object
LinkGroup(u) ==
  /\ units[u].phase = "link"
  /\ LET c == units[u].cur[1]
     IN /\ file_path' = LinkRows(file_path, units[u].groups[c], c,
                                 units[u].found[1])
        /\ units' = [units EXCEPT ![u].done = @ \cup {c}, ![u].cur = None,
                                  ![u].found = None, ![u].phase = "idle"]
        /\ hist' = [hist EXCEPT !.links = @ + Len(units[u].groups[c])]
  /\ UNCHANGED <<chunkVars, object, fs, job, saved>>

\* a unit has processed every content id it carries
UnitDone(u) == units[u].phase = "idle" /\ units[u].done = DOMAIN units[u].groups

\* the chunker's variables while the store is looked at
ChunkIdle ==
  /\ input = <<>>
  /\ pos = 0
  /\ current_batch = EmptyMap
  /\ current_batch_size = 0
  /\ tasks = <<>>
  /\ pc = "done"

\* the records with the given property, in ascending id order
RECURSIVE Ascending(_, _)
Ascending(ids, n) ==
  IF n = 0 THEN <<>>
  ELSE IF n \in ids THEN Append(Ascending(ids, n - 1), n)
       ELSE Ascending(ids, n - 1)

\* the groups of unit u when record r goes to unit assign[r][1] under the
\* content id assign[r][2]
GroupsOf(assign, u) ==
  LET keys == {c \in ProcCasIds : \E r \in DOMAIN assign : assign[r] = <<u, c>>}
  IN [c \in keys |->
        Ascending({r \in DOMAIN assign : assign[r] = <<u, c>>}, Len(assign))]

\* Two units that run at the same time over disjoint records, either may
\* carry either content id; the object of h1 may exist already.
InitProc ==
  /\ ChunkIdle
  /\ file_path = [r \in 1..MaxProcPaths |-> OrphanRow(r)]
  /\ object \in {<<>>, <<"h1">>}
  /\ fs = <<>>
  /\ \E assign \in [1..MaxProcPaths -> UnitIds \X ProcCasIds] :
       units = [u \in UnitIds |-> NewUnit(GroupsOf(assign, u))]
  /\ job = [state |-> "Idle"]
  /\ saved = None
  /\ hist = NoHistory(file_path)

NextProc ==
  \/ \E u \in DOMAIN units : LookupObject(u)
  \/ \E u \in DOMAIN units : CreateObject(u)
  \/ \E u \in DOMAIN units : CreateConflict(u)
  \/ \E u \in DOMAIN units : RefetchObject(u)
  \/ \E u \in DOMAIN units : LinkGroup(u)

SpecProc == InitProc /\ [][NextProc]_vars

(***************************************************************************)
(* The job driver: scan a page, identify, accumulate, dispatch, await       *)
(***************************************************************************)

\* number of path records in the store of SpecJob
MaxPaths == 3

\* number of records the orphan query takes per page
PageSize == 2

\* how often a run may be interrupted between two steps
MaxInterrupts == 1

\* how many runs follow each other
MaxRuns == 2

\* a path record and the file behind it
Indexed(path, size, cas_id, object_id, meta, read, len, hash) ==
  [row |-> [location_id |-> Some(1), is_dir |-> Some(FALSE),
            materialized_path |-> Some(path),
            size_in_bytes_bytes |-> Some(to_be_bytes(size)),
            cas_id |-> cas_id, object_id |-> object_id],
   file |-> [meta |-> meta, is_dir |-> FALSE, len |-> len, hash |-> hash,
             read |-> read, kind |-> Some("Document")]]

\* The records a location can hold when a run starts: orphans with content
\* h1 or h2, an orphan whose metadata cannot be read, an orphan whose file
\* was emptied after indexing, an empty file, a file indexed as empty that
\* has content by now, a record that has an object and no content id, a
\* record that has a content id and no object and whose bytes cannot be
\* read, an identified record, and an orphan in another directory.
PathProfiles ==
  { Indexed(<<"a">>, 5, None, None, "ok", "ok", 5, "h1"),
    Indexed(<<"a">>, 5, None, None, "ok", "ok", 5, "h2"),
    Indexed(<<"a">>, 5, None, None, "err", "ok", 5, "h1"),
    Indexed(<<"a">>, 5, None, None, "ok", "ok", 0, "h1"),
    Indexed(<<"a">>, 0, None, None, "ok", "ok", 0, "h1"),
    Indexed(<<"a">>, 0, None, None, "ok", "ok", 5, "h2"),
    Indexed(<<"a">>, 5, None, Some(1), "ok", "ok", 5, "h2"),
    Indexed(<<"a">>, 5, Some("h1"), None, "ok", "err", 5, "h1"),
    Indexed(<<"a">>, 5, Some("h1"), Some(1), "ok", "ok", 5, "h1"),
    Indexed(<<"b">>, 5, None, None, "ok", "ok", 5, "h1") }

\* the scans a run can be asked for: the children of directory a, or the
\* whole location
ScanModes ==
  { [mode |-> "shallow", sub |-> Some([is_dir |-> TRUE, path |-> <<"a">>])],
    [mode |-> "deep", sub |-> None] }

\* the job driver when a run starts
NewJob(scan) ==
  [state |-> "Scanning", mode |-> scan.mode, location_id |-> 1,
   sub |-> scan.sub, cursor |-> None, accumulator |-> EmptyMap,
   page |-> <<>>, exhausted |-> FALSE, errors |-> {}, steps |-> 0]

\* whether the orphan query of job j selects the row
Selected(j, row) ==
  IF j.mode = "shallow"
  THEN orphan_path_filters_shallow(j.location_id, j.cursor, j.sub[1], row)
  ELSE orphan_path_filters_deep(j.location_id, j.cursor, j.sub, row)

\* the first n elements of a sequence
Take(seq, n) == SubSeq(seq, 1, IF n < Len(seq) THEN n ELSE Len(seq))

\* the orphan query: the selected rows in ascending id order, one page
OrphanPage(rows, j) ==
  Take(Ascending({r \in DOMAIN rows : Selected(j, rows[r])}, Len(rows)),
       PageSize)

\* the records of a page by the content id FileMetadata::new gave them
GroupByCasId(page, files) ==
  LET res(r) == FileMetadata_new(files[r])
      keys == {res(page[i]).cas_id[1] :
                 i \in {k \in 1..Len(page) : res(page[k]).cas_id # None}}
  IN [c \in keys |-> SelectSeq(page, LAMBDA r : res(r).cas_id = Some(c))]

\* the records of a page FileMetadata::new failed for
FailedOf(page, files) ==
  {r \in Elems(page) : FileMetadata_new(files[r]).tag = "Err"}

\* the orders in which a map's entries can be drained
Orders(keys) ==
  {o \in [1..Cardinality(keys) -> keys] : \A c \in keys : \E i \in DOMAIN o : o[i] = c}

\* the entries of a map as the sequence of pairs an iterator yields
Drain(m, order) ==
  [i \in DOMAIN order |-> [cas_id |-> order[i], paths |-> m[order[i]]]]

InitJob ==
  /\ ChunkIdle
  /\ \E recs \in [1..MaxPaths -> PathProfiles] :
       /\ file_path = [r \in 1..MaxPaths |-> [id |-> r] @@ recs[r].row]
       /\ fs = [r \in 1..MaxPaths |->
                  [path |-> FilePath(file_path[r])] @@ recs[r].file]
  /\ object = IF \E r \in DOMAIN file_path : file_path[r].object_id # None
              THEN <<"h1">> ELSE <<>>
  /\ units = <<>>
  /\ \E scan \in ScanModes : job = NewJob(scan)
  /\ saved = None
  /\ hist = NoHistory(file_path)

\* one page of the orphan query, after the cursor
ScanPage ==
  /\ job.state = "Scanning"
  /\ LET page == OrphanPage(file_path, job)
     IN /\ job' = [job EXCEPT !.state = "Extracting", !.page = page,
                              !.exhausted = Len(page) < PageSize]
        /\ hist' = [hist EXCEPT !.returned = @ \cup Elems(page),
                                !.pages = Append(@, page)]
  /\ UNCHANGED <<chunkVars, file_path, object, fs, units, saved>>

\* FileMetadata::new for every record of the page; the identified records
\* are merged into the accumulator, the failures are recorded
ExtractPage ==
  /\ job.state = "Extracting"
  /\ \A r \in Elems(job.page) : FileMetadata_new(fs[r]).tag # "Panic"
  /\ job' = [job EXCEPT
       !.state = "Batching",
       !.accumulator =
          accumulate_file_paths_by_cas_id(GroupByCasId(job.page, fs), @),
       !.errors = @ \cup FailedOf(job.page, fs)]
  /\ UNCHANGED <<chunkVars, file_path, object, fs, units, saved, hist>>

\* FileMetadata::new panics for a record of the page: the task is gone
ExtractPanics ==
  /\ job.state = "Extracting"
  /\ \E r \in Elems(job.page) : FileMetadata_new(fs[r]).tag = "Panic"
  /\ job' = [job EXCEPT !.state = "Panicked"]
  /\ UNCHANGED <<chunkVars, file_path, object, fs, units, saved, hist>>

\* the accumulator is handed to dispatch_object_processor_tasks once it
\* holds CHUNK_SIZE records or the scan is exhausted
DispatchUnits ==
  /\ job.state = "Batching"
  /\ IF MapCount(job.accumulator) >= CHUNK_SIZE \/ job.exhausted
     THEN \E order \in Orders(DOMAIN job.accumulator) :
            LET out == dispatch_object_processor_tasks(
                         Drain(job.accumulator, order))
            IN /\ units' = [i \in DOMAIN out |-> NewUnit(out[i])]
               /\ job' = [job EXCEPT !.state = "AwaitingResults",
                                     !.accumulator = EmptyMap]
               /\ hist' = [hist EXCEPT !.dispatched = @ + Len(out)]
     ELSE /\ units' = <<>>
          /\ job' = [job EXCEPT !.state = "AwaitingResults"]
          /\ UNCHANGED hist
  /\ UNCHANGED <<chunkVars, file_path, object, fs, saved>>

\* every handle of the step has resolved: the cursor moves to the last id of
\* the page and the run goes on or completes
AwaitResults ==
  /\ job.state = "AwaitingResults"
  /\ \A u \in DOMAIN units : UnitDone(u)
  /\ units' = <<>>
  /\ job' = [job EXCEPT
       !.state = IF job.exhausted THEN "Completed" ELSE "Scanning",
       !.cursor = IF job.page = <<>> THEN @ ELSE Some(job.page[Len(job.page)]),
       !.page = <<>>,
       !.steps = @ + 1]
  /\ UNCHANGED <<chunkVars, file_path, object, fs, saved, hist>>

\* pause between two steps: cursor, leftover accumulator and errors are
\* serialized, the job's memory is gone
Interrupt ==
  /\ job.state = "Scanning"
  /\ job.steps > 0
  /\ hist.interrupts < MaxInterrupts
  /\ saved' = Some([cursor |-> job.cursor, accumulator |-> job.accumulator,
                    errors |-> job.errors, steps |-> job.steps])
  /\ job' = [job EXCEPT !.state = "Paused", !.cursor = None,
                        !.accumulator = EmptyMap, !.errors = {}, !.steps = 0]
  /\ hist' = [hist EXCEPT !.interrupts = @ + 1,
                          !.leftover = @ \cup MapRecords(job.accumulator)]
  /\ UNCHANGED <<chunkVars, file_path, object, fs, units>>

\* the job is restored from the serialized state
Resume ==
  /\ job.state = "Paused"
  /\ job' = [job EXCEPT !.state = "Scanning", !.cursor = saved[1].cursor,
                        !.accumulator = saved[1].accumulator,
                        !.errors = saved[1].errors, !.steps = saved[1].steps]
  /\ saved' = None
  /\ UNCHANGED <<chunkVars, file_path, object, fs, units, hist>>

\* the next run over the same location, nothing changed in between
StartNextRun ==
  /\ job.state = "Completed"
  /\ hist.run < MaxRuns
  /\ job' = NewJob([mode |-> job.mode, sub |-> job.sub])
  /\ hist' = [hist EXCEPT !.run = @ + 1, !.returned = {}, !.dispatched = 0,
                          !.creates = 0, !.links = 0, !.pages = <<>>,
                          !.start = file_path]
  /\ UNCHANGED <<chunkVars, file_path, object, fs, units, saved>>

NextJob ==
  \/ ScanPage
  \/ ExtractPage
  \/ DispatchUnits
  \/ \E u \in DOMAIN units : LookupObject(u)
  \/ \E u \in DOMAIN units : CreateObject(u)
  \/ \E u \in DOMAIN units : LinkGroup(u)
  \/ AwaitResults
  \/ Interrupt
  \/ Resume
  \/ StartNextRun

SpecJob == InitJob /\ [][NextJob]_vars

(***************************************************************************)
(* A run over two orphans whose files are anything FileMetadata::new can    *)
(* meet                                                                    *)
(***************************************************************************)

\* Every file: metadata readable or not, a directory or not, empty or not,
\* bytes readable or not, a kind the classification finds or none.
Files ==
  [meta : {"ok", "err"}, is_dir : BOOLEAN, len : {0, 5}, hash : {"h1", "h2"},
   read : {"ok", "err"}, kind : {None, Some("Document"), Some("Image")}]

InitIdentify ==
  /\ ChunkIdle
  /\ file_path = <<OrphanRow(1), OrphanRow(2)>>
  /\ \E f \in [DOMAIN file_path -> Files] :
       fs = [r \in DOMAIN file_path |->
               [path |-> FilePath(file_path[r])] @@ f[r]]
  /\ object = <<>>
  /\ units = <<>>
  /\ \E scan \in ScanModes : job = NewJob(scan)
  /\ saved = None
  /\ hist = NoHistory(file_path)

NextIdentify ==
  \/ ScanPage
  \/ ExtractPage
  \/ ExtractPanics
  \/ DispatchUnits
  \/ \E u \in DOMAIN units : LookupObject(u)
  \/ \E u \in DOMAIN units : CreateObject(u)
  \/ \E u \in DOMAIN units : LinkGroup(u)
  \/ AwaitResults

SpecIdentify == InitIdentify /\ [][NextIdentify]_vars

(***************************************************************************)
(* accumulate_file_paths_by_cas_id on its own: one call on two maps         *)
(***************************************************************************)

\* longest record list of a map handed to accumulate_file_paths_by_cas_id
MaxListLen == 2

\* the content ids and the records of the maps that are merged
MergeCasIds == {"h1", "h2"}

MergeRecords == {1, 2}

\* every record list of at most MaxListLen records
RecordLists == UNION {[1..n -> MergeRecords] : n \in 0..MaxListLen}

\* every HashMap<CasId, Vec<FilePathToCreateOrLinkObject>> over them
RecordMaps == UNION {[keys -> RecordLists] : keys \in SUBSET MergeCasIds}

InitMerge ==
  /\ ChunkIdle
  /\ file_path = <<>>
  /\ object = <<>>
  /\ fs = <<>>
  /\ units = <<>>
  /\ \E inp \in RecordMaps, acc \in RecordMaps :
       job = [state |-> "Merging", input |-> inp, accumulator |-> acc,
              before |-> acc]
  /\ saved = None
  /\ hist = <<>>

\* accumulate_file_paths_by_cas_id(input, &mut accumulator)
MergeInput ==
  /\ job.state = "Merging"
  /\ job' = [job EXCEPT
       !.state = "Merged",
       !.accumulator = accumulate_file_paths_by_cas_id(job.input, @)]
  /\ UNCHANGED <<chunkVars, file_path, object, fs, units, saved, hist>>

NextMerge == MergeInput

SpecMerge == InitMerge /\ [][NextMerge]_vars

(***************************************************************************)
(* The orphan query on its own: one row, one call of each filter            *)
(***************************************************************************)

\* largest id of a path record, and largest cursor, the filters are tried on
MaxRowId == 3

\* the locations a row can belong to and a query can ask for
LocationIds == {1, 2}

\* the materialized paths of the rows: the root, a, a/b and b
RowPaths == {<<>>, <<"a">>, <<"a", "b">>, <<"b">>}

\* the sizes the rows were indexed with
RowSizes == {0, 5, 256}

\* Every row of the file_path table the filters can meet: any of is_dir,
\* location_id and materialized_path may be NULL, the size is stored.
FilterRows ==
  [id : 1..MaxRowId,
   location_id : {None} \cup {Some(l) : l \in LocationIds},
   is_dir : {None, Some(TRUE), Some(FALSE)},
   materialized_path : {None} \cup {Some(p) : p \in RowPaths},
   size_in_bytes_bytes : {Some(to_be_bytes(n)) : n \in RowSizes},
   cas_id : {None, Some("h1")},
   object_id : {None, Some(1)}]

\* the sub paths a scan can be given: the directories a and a/b, the root
\* directory, and a file of directory a
SubPaths ==
  { [is_dir |-> TRUE, path |-> <<>>],
    [is_dir |-> TRUE, path |-> <<"a">>],
    [is_dir |-> TRUE, path |-> <<"a", "b">>],
    [is_dir |-> FALSE, path |-> <<"a">>] }

\* the value of file_path_id: no cursor, or the last id of the page before
Cursors == {None} \cup {Some(i) : i \in 1..MaxRowId}

\* the result of a query that has not run
NotRun == [tag |-> "NotRun", ids |-> {}]

\* the rows a query returned, or the panic of the expect on the sub path
QueryResult(sub, ids) ==
  IF materialized_path_for_children(sub) = None
  THEN [tag |-> "Panic", ids |-> {}]
  ELSE [tag |-> "Ok", ids |-> ids]

InitFilter ==
  /\ ChunkIdle
  /\ \E row \in FilterRows : file_path = (row.id :> row)
  /\ object = <<>>
  /\ fs = <<>>
  /\ units = <<>>
  /\ \E l \in LocationIds, c \in Cursors, s \in {None} \cup {Some(p) : p \in SubPaths} :
       job = [state |-> "Query", location_id |-> l, cursor |-> c, sub |-> s,
              shallow |-> NotRun, deep |-> NotRun]
  /\ saved = None
  /\ hist = <<>>

\* find_many(orphan_path_filters_shallow(location_id, cursor, sub))
QueryShallow ==
  /\ job.state = "Query"
  /\ job.shallow = NotRun
  /\ job.sub # None
  /\ job' = [job EXCEPT !.shallow =
       QueryResult(job.sub[1],
         {r \in DOMAIN file_path :
            orphan_path_filters_shallow(job.location_id, job.cursor,
                                        job.sub[1], file_path[r])})]
  /\ UNCHANGED <<chunkVars, file_path, object, fs, units, saved, hist>>

\* find_many(orphan_path_filters_deep(location_id, cursor, maybe_sub))
QueryDeep ==
  /\ job.state = "Query"
  /\ job.deep = NotRun
  /\ job' = [job EXCEPT !.deep =
       IF job.sub # None /\ QueryResult(job.sub[1], {}).tag = "Panic"
       THEN QueryResult(job.sub[1], {})
       ELSE [tag |-> "Ok",
             ids |-> {r \in DOMAIN file_path :
                        orphan_path_filters_deep(job.location_id, job.cursor,
                                                 job.sub, file_path[r])}]]
  /\ UNCHANGED <<chunkVars, file_path, object, fs, units, saved, hist>>

NextFilter ==
  \/ QueryShallow
  \/ QueryDeep

SpecFilter == InitFilter /\ [][NextFilter]_vars

(***************************************************************************)
(* Properties of dispatch_object_processor_tasks                           *)
(***************************************************************************)

\* the pairs the loop has consumed
Consumed == 1..pos

\* all records of the input
InputRecords == UNION {Elems(input[j].paths) : j \in 1..Len(input)}

RECURSIVE SumSeq(_, _)
\* sum of f[i] for i in 1..n
SumSeq(f, n) == IF n = 0 THEN 0 ELSE f[n] + SumSeq(f, n - 1)

InputCount == SumSeq([j \in 1..Len(input) |-> Len(input[j].paths)], Len(input))

DispatchedCount == SumSeq([i \in 1..Len(tasks) |-> MapCount(tasks[i])], Len(tasks))

\* the record sets of the dispatched units, in dispatch order
UnitRecords == [i \in 1..Len(tasks) |-> MapRecords(tasks[i])]

\* no content id occurs in two pairs of the input
DistinctKeys ==
  \A j, k \in 1..Len(input) : input[j].cas_id = input[k].cas_id => j = k

\* C1: conservation. When dispatch_object_processor_tasks returns, every input
\* record is in exactly one dispatched unit and the record counts of the units
\* sum to the number of input records, the leftover accumulator included.
C1_Conservation ==
  pc = "done" =>
    LET recs == UnitRecords
    IN /\ DispatchedCount = InputCount
       /\ UNION {recs[i] : i \in 1..Len(tasks)} = InputRecords
       /\ \A i \in 1..Len(tasks) : Cardinality(recs[i]) = MapCount(tasks[i])
       /\ \A i, j \in 1..Len(tasks) : i # j => recs[i] \cap recs[j] = {}

\* a run that returned after dispatching a full unit and then a leftover
\* accumulator that held records
C1_Witness ==
  /\ pc = "done"
  /\ Len(tasks) >= 2
  /\ current_batch_size > 0
  /\ tasks[Len(tasks)] = current_batch
  /\ MapCount(tasks[1]) >= CHUNK_SIZE

\* C2: chunking lower bound. Every dispatched unit other than the last one
\* holds at least CHUNK_SIZE records.
C2_NonFinalUnitsFull ==
  pc = "done" =>
    \A i \in 1..(Len(tasks) - 1) : MapCount(tasks[i]) >= CHUNK_SIZE

\* a returned run of three units whose last unit is under the threshold
C2_Witness ==
  /\ pc = "done"
  /\ Len(tasks) = 3
  /\ MapCount(tasks[3]) < CHUNK_SIZE
  /\ MapCount(tasks[3]) > 0

\* C3 as stated: in every dispatched unit, a content id whose list has at
\* least CHUNK_SIZE records is the only key of the unit.
C3_LongListIsAlone ==
  \A i \in 1..Len(tasks) : \A k \in DOMAIN tasks[i] :
    Len(tasks[i][k]) >= CHUNK_SIZE => DOMAIN tasks[i] = {k}

\* C3 amended: every input pair whose list has at least CHUNK_SIZE records is
\* dispatched as a unit whose only key is its content id and whose list is the
\* pair's list; and when no content id occurs in two input pairs, a content id
\* whose list has at least CHUNK_SIZE records is the only key of its unit.
C3_StandaloneGroupIsAlone ==
  /\ \A j \in Consumed :
       Len(input[j].paths) >= CHUNK_SIZE =>
         \E i \in 1..Len(tasks) :
           /\ DOMAIN tasks[i] = {input[j].cas_id}
           /\ tasks[i][input[j].cas_id] = input[j].paths
  /\ DistinctKeys => C3_LongListIsAlone

\* a returned run over distinct content ids in which a group at the threshold
\* was dispatched after a smaller group had been accumulated
C3_Witness ==
  /\ pc = "done"
  /\ DistinctKeys
  /\ Len(input) = 3
  /\ Len(input[1].paths) = 1
  /\ Len(input[2].paths) = CHUNK_SIZE
  /\ Len(tasks) = 2
  /\ DOMAIN tasks[1] = {input[2].cas_id}
  /\ DOMAIN tasks[2] = {input[1].cas_id, input[3].cas_id}

\* C4 as stated: each content id is a key of at most one dispatched unit.
C4_KeyInOneUnit ==
  \A c \in CasIds :
    Cardinality({i \in 1..Len(tasks) : c \in DOMAIN tasks[i]}) <= 1

\* C4 amended: the records of one input pair are never split across units
\* (they all lie in the list its content id has in one unit); and when no
\* content id occurs in two input pairs, each content id is a key of at most
\* one dispatched unit.
C4_GroupNotSplit ==
  /\ pc = "done" =>
       \A j \in 1..Len(input) :
         \E i \in 1..Len(tasks) :
           /\ input[j].cas_id \in DOMAIN tasks[i]
           /\ Elems(input[j].paths) \subseteq Elems(tasks[i][input[j].cas_id])
  /\ DistinctKeys => C4_KeyInOneUnit

\* a returned run over three distinct content ids that dispatched a unit by
\* the threshold rule and then a leftover unit
C4_Witness ==
  /\ pc = "done"
  /\ DistinctKeys
  /\ Len(input) = 3
  /\ Len(tasks) = 2
  /\ Cardinality(DOMAIN tasks[1]) = 2
  /\ Cardinality(DOMAIN tasks[2]) = 1
  /\ MapCount(tasks[2]) > 0

(***************************************************************************)
(* Properties of the object processor                                      *)
(***************************************************************************)

\* C5: under every interleaving of the units there is at most one content
\* object per content id, and a linked record references the object of its
\* content id, so the unit that lost the creation links to the object the
\* other unit created.
C5_OneObjectPerCasId ==
  /\ \A i, j \in DOMAIN object : object[i] = object[j] => i = j
  /\ \A r \in DOMAIN file_path :
       file_path[r].object_id # None =>
         /\ file_path[r].object_id[1] \in DOMAIN object
         /\ file_path[r].cas_id = Some(object[file_path[r].object_id[1]])
  /\ \A u \in DOMAIN units :
       units[u].phase = "link" =>
         /\ units[u].found # None
         /\ units[u].found[1] \in DOMAIN object
         /\ object[units[u].found[1]] = units[u].cur[1]

\* both units saw no object for h1, one lost the creation, and both have
\* linked their records to the one object of h1
C5_Witness ==
  /\ hist.conflicts >= 1
  /\ \A u \in DOMAIN units : UnitDone(u) /\ "h1" \in DOMAIN units[u].groups
  /\ \A r \in DOMAIN file_path :
       file_path[r].cas_id = Some("h1") =>
         file_path[r].object_id = FindObject(object, "h1")
  /\ \E r \in DOMAIN file_path : file_path[r].cas_id = Some("h1")

(***************************************************************************)
(* Properties of a run                                                     *)
(***************************************************************************)

\* the run has ended
RunEnded == job.state = "Completed"

\* the rows the first run started from
Rows0 == hist.rows0

\* the file can be identified: its metadata and bytes can be read and it is
\* not empty
Identifiable(r) ==
  /\ fs[r].meta = "ok"
  /\ ~fs[r].is_dir
  /\ fs[r].read = "ok"
  /\ fs[r].len # 0

\* the record lies in what the run scans: a file of the location, for a
\* shallow scan directly in the given directory
InScanScope(r) ==
  /\ Rows0[r].is_dir = Some(FALSE)
  /\ Rows0[r].location_id = Some(job.location_id)
  /\ job.mode = "shallow" => Rows0[r].materialized_path = Some(job.sub[1].path)

\* the record was indexed with size zero
ZeroSized(r) == Rows0[r].size_in_bytes_bytes = Some(<<0, 0, 0, 0, 0, 0, 0, 0>>)

\* the record is one the first run has to identify
ToIdentify(r) ==
  /\ InScanScope(r)
  /\ ~ZeroSized(r)
  /\ Rows0[r].object_id = None \/ Rows0[r].cas_id = None
  /\ Identifiable(r)

\* the record has a content id and an object
Linked(row) == row.cas_id # None /\ row.object_id # None

\* exactly one of content id and object is set
HalfSet(row) == (row.cas_id = None) # (row.object_id = None)

\* the content id of the object a row references
ObjectCasId(objects, row) ==
  IF row.object_id = None THEN None ELSE Some(objects[row.object_id[1]])

\* C6 as stated: after a completed run two records of the scanned files
\* whose content has the same content id have the same object, and two whose
\* content ids differ have different objects.
C6_Dedup ==
  RunEnded =>
    \A r1, r2 \in DOMAIN file_path :
      (/\ r1 # r2
       /\ InScanScope(r1) /\ InScanScope(r2)
       /\ fs[r1].len # 0 /\ fs[r2].len # 0) =>
        (fs[r1].hash = fs[r2].hash)
          <=> (file_path[r1].object_id = file_path[r2].object_id)

\* C6 amended: after a completed run every record the run had to identify
\* and could identify carries the content id of its content and an object,
\* and two records that carry a content id and an object have the same object
\* exactly when they have the same content id.
C6_DedupIdentified ==
  RunEnded =>
    /\ \A r \in DOMAIN file_path :
         ToIdentify(r) =>
           /\ file_path[r].cas_id = Some(fs[r].hash)
           /\ ObjectCasId(object, file_path[r]) = Some(fs[r].hash)
    /\ \A r1, r2 \in DOMAIN file_path :
         (Linked(file_path[r1]) /\ Linked(file_path[r2])) =>
           (file_path[r1].cas_id = file_path[r2].cas_id)
             <=> (file_path[r1].object_id = file_path[r2].object_id)

\* a completed first run that linked two records with the same content to
\* one object and a third record to another object
C6_Witness ==
  /\ RunEnded
  /\ hist.run = 1
  /\ \A r \in DOMAIN file_path : ToIdentify(r) /\ Rows0[r].object_id = None
  /\ file_path[1].object_id = file_path[3].object_id
  /\ file_path[1].object_id # file_path[2].object_id

\* the orphan query of a fresh run selects the row
Accepted0(r) == Selected(NewJob([mode |-> job.mode, sub |-> job.sub]), Rows0[r])

\* C7 as stated: after a run every record the orphan filter accepted has both
\* content_id and object_id set or neither.
C7_BothOrNeither ==
  RunEnded =>
    \A r \in DOMAIN file_path : Accepted0(r) => ~HalfSet(file_path[r])

\* C7 amended: after a run every record the orphan filter accepted whose
\* identification yields a content id has both fields set, and every other
\* record keeps the fields it started with; hence a record ends with exactly
\* one of the two set only if it started so and was not identified.
C7_LinkedOrUnchanged ==
  RunEnded =>
    \A r \in DOMAIN file_path :
      /\ (Accepted0(r) /\ Identifiable(r)) => Linked(file_path[r])
      /\ ~(Accepted0(r) /\ Identifiable(r)) =>
           /\ file_path[r].cas_id = Rows0[r].cas_id
           /\ file_path[r].object_id = Rows0[r].object_id
      /\ HalfSet(file_path[r]) => (HalfSet(Rows0[r]) /\ ~Identifiable(r))

\* a completed first run in which a record that started with an object and no
\* content id got both, and a record whose metadata cannot be read stayed
\* with neither
C7_Witness ==
  /\ RunEnded
  /\ hist.run = 1
  /\ \E r \in DOMAIN file_path :
       /\ Accepted0(r)
       /\ HalfSet(Rows0[r])
       /\ Linked(file_path[r])
  /\ \E r \in DOMAIN file_path :
       /\ Accepted0(r)
       /\ r \in job.errors
       /\ file_path[r].cas_id = None
       /\ file_path[r].object_id = None

\* the records held by the units in flight
UnitRecordsInFlight == UNION {MapRecords(units[u].groups) : u \in DOMAIN units}

\* C8: empty-content exclusion. Neither filter selects a record of size zero;
\* FileMetadata::new, when it succeeds, yields a content id exactly for a
\* file of non-zero length; and through all runs a record of size zero, or
\* whose file is empty, is in no page result that is batched, in no unit, and
\* keeps its content_id and object_id unset.
C8_EmptyContentExcluded ==
  /\ \A r \in DOMAIN file_path :
       ZeroSized(r) =>
         /\ ~orphan_path_filters_shallow(job.location_id, None,
               [is_dir |-> TRUE, path |-> file_path[r].materialized_path[1]],
               file_path[r])
         /\ ~orphan_path_filters_deep(job.location_id, None, None, file_path[r])
         /\ r \notin Elems(job.page)
  /\ \A r \in DOMAIN fs :
       FileMetadata_new(fs[r]).tag = "Ok" =>
         (FileMetadata_new(fs[r]).cas_id # None <=> fs[r].len # 0)
  /\ \A r \in DOMAIN file_path :
       (ZeroSized(r) \/ fs[r].len = 0) =>
         /\ r \notin MapRecords(job.accumulator)
         /\ r \notin UnitRecordsInFlight
         /\ file_path[r].cas_id = Rows0[r].cas_id
         /\ file_path[r].object_id = Rows0[r].object_id
         /\ Rows0[r].cas_id = None /\ Rows0[r].object_id = None

\* the last run has ended, it linked a record in an earlier run, and a record
\* of size zero of the scanned directory is still without content id and
\* object
C8_Witness ==
  /\ RunEnded
  /\ hist.run = MaxRuns
  /\ \E r \in DOMAIN file_path :
       /\ ZeroSized(r)
       /\ InScanScope(r)
       /\ file_path[r].cas_id = None
       /\ file_path[r].object_id = None
  /\ \E r \in DOMAIN file_path : Linked(file_path[r]) /\ ~Linked(Rows0[r])

\* C9 as stated: in a run that follows a completed run the orphan query
\* returns no record, no unit is dispatched and nothing is created or linked.
C9_SecondRunDoesNothing ==
  hist.run >= 2 =>
    /\ hist.returned = {}
    /\ hist.dispatched = 0
    /\ hist.creates = 0
    /\ hist.links = 0

\* C9 amended: in a run that follows a completed run no unit is dispatched
\* and nothing is created or linked; the orphan query returns only records
\* whose identification fails or yields no content id, and none of them is
\* batched.
C9_SecondRunNoDispatch ==
  hist.run >= 2 =>
    /\ hist.dispatched = 0
    /\ hist.creates = 0
    /\ hist.links = 0
    /\ units = <<>>
    /\ job.accumulator = EmptyMap
    /\ \A r \in hist.returned : ~Identifiable(r)

\* a second run has ended whose orphan query returned a record, after a
\* first run that linked one
C9_Witness ==
  /\ RunEnded
  /\ hist.run = 2
  /\ hist.returned # {}
  /\ \E r \in DOMAIN file_path : Linked(file_path[r]) /\ ~Linked(Rows0[r])

\* content id and content id of the object, per record
Assignment ==
  [r \in DOMAIN file_path |->
     <<file_path[r].cas_id, ObjectCasId(object, file_path[r])>>]

\* what a run leaves behind as a function of the store it started from: a
\* record it had to identify and could identify carries the content id of
\* its content and the object of that content id, every other record what it
\* started with
AssignmentOfRun ==
  [r \in DOMAIN file_path |->
     IF ToIdentify(r)
     THEN <<Some(fs[r].hash), Some(fs[r].hash)>>
     ELSE <<Rows0[r].cas_id, ObjectCasId(object, Rows0[r])>>]

\* C10: resumability. A first run ends with the same assignment of records
\* to content ids and objects whether it ran in one piece or was interrupted
\* between two steps, its cursor and leftover accumulator saved and restored:
\* the assignment is the one function of the initial store.
C10_ResumedRunSameAssignments ==
  (RunEnded /\ hist.run = 1) => Assignment = AssignmentOfRun

\* a first run that was interrupted with records in the accumulator has
\* ended: a record of the saved leftover and a record scanned after the
\* restore are linked to the same object
C10_Witness ==
  /\ RunEnded
  /\ hist.run = 1
  /\ hist.interrupts = 1
  /\ \E r1 \in hist.leftover : \E r2 \in DOMAIN file_path \ hist.leftover :
       /\ ~Linked(Rows0[r1]) /\ ~Linked(Rows0[r2])
       /\ Linked(file_path[r1])
       /\ file_path[r1].object_id = file_path[r2].object_id

(***************************************************************************)
(* Properties of the orphan filters                                        *)
(***************************************************************************)

\* the row the query ran on was returned by the shallow, by the deep query
InShallow(r) == job.shallow.tag = "Ok" /\ r \in job.shallow.ids

InDeep(r) == job.deep.tag = "Ok" /\ r \in job.deep.ids

\* a file of the location that has a size other than zero, lacks the object
\* or the content id, and comes after the cursor when there is one
OrphanOf(row, location_id, cursor) ==
  /\ row.is_dir = Some(FALSE)
  /\ row.location_id = Some(location_id)
  /\ row.size_in_bytes_bytes # Some(<<0, 0, 0, 0, 0, 0, 0, 0>>)
  /\ row.object_id = None \/ row.cas_id = None
  /\ cursor # None => row.id > cursor[1]

\* C11: orphan predicate. A row returned by the shallow or by the deep query
\* is not a directory, belongs to the target location, has non-zero size,
\* lacks object_id or content_id, and has an id strictly greater than the
\* cursor when one is given; without a cursor whether a row is selected does
\* not depend on its id.
C11_OrphanPredicate ==
  \A r \in DOMAIN file_path :
    LET row == file_path[r]
    IN /\ (InShallow(r) \/ InDeep(r)) =>
            OrphanOf(row, job.location_id, job.cursor)
       /\ job.cursor = None =>
            \A i \in 1..MaxRowId :
              /\ orphan_path_filters_deep(job.location_id, None, job.sub,
                                          [row EXCEPT !.id = i])
                   = orphan_path_filters_deep(job.location_id, None, job.sub, row)
              /\ job.sub # None =>
                   orphan_path_filters_shallow(job.location_id, None, job.sub[1],
                                               [row EXCEPT !.id = i])
                     = orphan_path_filters_shallow(job.location_id, None,
                                                   job.sub[1], row)

\* both queries ran with a cursor and returned a row that has an object and
\* no content id
C11_Witness ==
  /\ job.cursor # None
  /\ \E r \in DOMAIN file_path :
       /\ InShallow(r)
       /\ InDeep(r)
       /\ file_path[r].object_id # None
       /\ file_path[r].cas_id = None
       /\ r = job.cursor[1] + 1

\* prefix is an initial part of path
IsPrefix(prefix, path) == \E k \in 0..Len(path) : SubSeq(path, 1, k) = prefix

\* C12: scan scope. The shallow query returns exactly the orphans whose
\* materialized_path equals the children path of the given directory; the
\* deep query returns exactly the orphans whose materialized_path starts with
\* the children path of the sub path when one is given, and every orphan when
\* none is given; so what the shallow query returns for a directory the deep
\* query returns too.
C12_ScanScope ==
  \A r \in DOMAIN file_path :
    LET row == file_path[r]
        orphan == OrphanOf(row, job.location_id, job.cursor)
    IN /\ job.shallow.tag = "Ok" =>
            (r \in job.shallow.ids
               <=> (orphan /\ row.materialized_path = Some(job.sub[1].path)))
       /\ job.deep.tag = "Ok" =>
            (r \in job.deep.ids
               <=> /\ orphan
                   /\ job.sub # None =>
                        /\ row.materialized_path # None
                        /\ IsPrefix(job.sub[1].path, row.materialized_path[1]))
       /\ (job.shallow.tag = "Ok" /\ job.deep.tag = "Ok") =>
            job.shallow.ids \subseteq job.deep.ids

\* both queries ran on directory a and the row lies in a/b: the deep query
\* returned it, the shallow query did not
C12_Witness ==
  /\ job.sub = Some([is_dir |-> TRUE, path |-> <<"a">>])
  /\ job.shallow.tag = "Ok"
  /\ job.deep.tag = "Ok"
  /\ \E r \in DOMAIN file_path :
       /\ file_path[r].materialized_path = Some(<<"a", "b">>)
       /\ r \in job.deep.ids
       /\ r \notin job.shallow.ids

(***************************************************************************)
(* Properties of the paged scan                                            *)
(***************************************************************************)

RECURSIVE Flatten(_)
\* the pages one after the other
Flatten(pages) ==
  IF pages = <<>> THEN <<>> ELSE Head(pages) \o Flatten(Tail(pages))

\* the ids the orphan query of the current run has returned, in order
Scanned == Flatten(hist.pages)

\* the rows the orphan query selects without a cursor when the run starts
Matching ==
  {r \in DOMAIN hist.start :
     Selected(NewJob([mode |-> job.mode, sub |-> job.sub]), hist.start[r])}

IsStandaloneUnitOf(i, j) ==
  /\ Len(input[j].paths) >= CHUNK_SIZE
  /\ DOMAIN tasks[i] = {input[j].cas_id}
  /\ tasks[i][input[j].cas_id] = input[j].paths

\* unit i is some consumed pair's list, dispatched alone
IsStandaloneUnit(i) == \E j \in Consumed : IsStandaloneUnitOf(i, j)

\* C14 as stated: every dispatched unit holds at most CHUNK_SIZE records.
C14_UnitAtMostChunk ==
  \A i \in 1..Len(tasks) : MapCount(tasks[i]) <= CHUNK_SIZE

\* C14 amended: a dispatched unit holds more than CHUNK_SIZE records only if
\* it is one input pair of at least CHUNK_SIZE records dispatched alone, or
\* an accumulated unit that held fewer than CHUNK_SIZE records before a pair
\* shorter than CHUNK_SIZE was added to it.
C14_UnitOverChunkOnlyByLastGroup ==
  \A i \in 1..Len(tasks) :
    LET n == MapCount(tasks[i])
    IN n > CHUNK_SIZE =>
         \/ IsStandaloneUnit(i)
         \/ \E j \in Consumed :
              /\ Len(input[j].paths) < CHUNK_SIZE
              /\ n - Len(input[j].paths) < CHUNK_SIZE
              /\ input[j].cas_id \in DOMAIN tasks[i]
              /\ Elems(input[j].paths) \subseteq Elems(tasks[i][input[j].cas_id])

\* a returned run that dispatched an accumulated unit of 2 * CHUNK_SIZE - 2
\* records and a standalone unit of CHUNK_SIZE + 1 records
C14_Witness ==
  /\ pc = "done"
  /\ Len(tasks) = 2
  /\ \E i, k \in 1..2 :
       /\ MapCount(tasks[i]) = 2 * CHUNK_SIZE - 2
       /\ ~IsStandaloneUnit(i)
       /\ MapCount(tasks[k]) = CHUNK_SIZE + 1
       /\ IsStandaloneUnit(k)

\* the number of records of the unit u when pair j goes to unit f[j]
SizeUnder(f, u) ==
  SumSeq([j \in 1..Len(input) |-> IF f[j] = u THEN Len(input[j].paths) ELSE 0],
         Len(input))

\* f partitions the input pairs into the units 1..k: every pair is in one
\* unit whole, every unit has a pair, and no unit but the last is under the
\* threshold
IsPartition(f, k) ==
  /\ \A u \in 1..k : \E j \in 1..Len(input) : f[j] = u
  /\ \A u \in 1..(k - 1) : SizeUnder(f, u) >= CHUNK_SIZE

\* there is such a partition into k units
HasPartition(k) == \E f \in [1..Len(input) -> 1..k] : IsPartition(f, k)

\* the least number of units of such a partition
MinUnits ==
  CHOOSE k \in 0..Len(input) :
    HasPartition(k) /\ \A l \in 0..(k - 1) : ~HasPartition(l)

\* C15 as stated: the number of units dispatched is the minimum over all
\* partitions of the input pairs into units in which no unit but the last is
\* under the threshold and no pair is split.
C15_MinimalUnits ==
  pc = "done" => Len(tasks) = MinUnits

\* C15 amended: the number of units dispatched is at least that minimum and
\* at most the number of input records divided by CHUNK_SIZE, rounded down,
\* plus one; it is the minimum exactly when at most one unit is dispatched.
C15_UnitsBetweenMinAndQuota ==
  pc = "done" =>
    /\ MinUnits <= Len(tasks)
    /\ Len(tasks) <= (InputCount \div CHUNK_SIZE) + 1
    /\ Len(tasks) = MinUnits <=> Len(tasks) <= 1

\* a returned run of three units, the number the records allow, for an input
\* that one unit could have held
C15_Witness ==
  /\ pc = "done"
  /\ Len(tasks) = 3
  /\ Len(tasks) = (InputCount \div CHUNK_SIZE) + 1
  /\ MinUnits = 1

(***************************************************************************)
(* Properties of FileMetadata::new and of failed identifications           *)
(***************************************************************************)

\* C16: content identification errors. FileMetadata::new returns an error
\* tagged with the file's path when the metadata cannot be read, whether or
\* not the path is a directory; when metadata and bytes can be read the call
\* succeeds whatever the classification does, with kind Unknown when the
\* classification fails; a record is recorded as failed only if the call
\* returned an error, and is so once the run has ended; a record whose
\* identification failed is in no accumulator and no unit and keeps its row;
\* and every content object has the content id of a successful call.
C16_IdentificationErrors ==
  /\ \A r \in DOMAIN fs :
       LET f == fs[r]
           res == FileMetadata_new(f)
       IN /\ f.meta = "err" => res = IoError(FilePath(file_path[r]))
          /\ (f.meta = "ok" /\ ~f.is_dir /\ (f.len = 0 \/ f.read = "ok")) =>
               /\ res.tag = "Ok"
               /\ res.kind = IF f.kind = None THEN "Unknown" ELSE f.kind[1]
          /\ r \in job.errors => res.tag = "Err"
          /\ (RunEnded /\ res.tag = "Err") => r \in job.errors
          /\ res.tag = "Err" =>
               /\ r \notin MapRecords(job.accumulator)
               /\ r \notin UnitRecordsInFlight
               /\ file_path[r] = Rows0[r]
  /\ \A i \in DOMAIN object :
       \E r \in DOMAIN fs :
         /\ FileMetadata_new(fs[r]).tag = "Ok"
         /\ FileMetadata_new(fs[r]).cas_id = Some(object[i])

\* a run has ended: the metadata of record 1, a directory by now, could not
\* be read and the record is recorded as failed and unchanged; record 2,
\* whose kind could not be classified, is linked to the only object
C16_Witness ==
  /\ RunEnded
  /\ fs[1].meta = "err"
  /\ fs[1].is_dir
  /\ 1 \in job.errors
  /\ file_path[1] = Rows0[1]
  /\ fs[2].kind = None
  /\ Linked(file_path[2])
  /\ Len(object) = 1

(***************************************************************************)
(* Properties of accumulate_file_paths_by_cas_id                           *)
(***************************************************************************)

\* the list a map has for a key, empty when it has none
ListOf(m, k) == IF k \in DOMAIN m THEN m[k] ELSE <<>>

\* how often x occurs in a sequence
Occurrences(seq, x) == Cardinality({i \in 1..Len(seq) : seq[i] = x})

\* two sequences hold the same records equally often
SameMultiset(s1, s2) ==
  \A x \in Elems(s1) \cup Elems(s2) : Occurrences(s1, x) = Occurrences(s2, x)

\* C17: merge. After accumulate_file_paths_by_cas_id(input, accumulator) the
\* accumulator's keys are the keys of both maps, the list of every key is
\* the accumulator's previous list followed by the input's list, the record
\* count is the sum of both counts, and merging the two maps the other way
\* round gives every key the same records equally often.
C17_Merge ==
  job.state = "Merged" =>
    LET out == job.accumulator
        swapped == accumulate_file_paths_by_cas_id(job.before, job.input)
    IN /\ DOMAIN out = DOMAIN job.before \cup DOMAIN job.input
       /\ \A k \in DOMAIN out :
            out[k] = ListOf(job.before, k) \o ListOf(job.input, k)
       /\ MapCount(out) = MapCount(job.before) + MapCount(job.input)
       /\ DOMAIN swapped = DOMAIN out
       /\ \A k \in DOMAIN out : SameMultiset(out[k], swapped[k])

\* a merge of two maps that share a key, with the records in different
\* order, the input having a key the accumulator lacks: the shared key holds
\* the accumulator's records first
C17_Witness ==
  /\ job.state = "Merged"
  /\ job.before = ("h1" :> <<1, 2>>)
  /\ job.input = ("h1" :> <<2, 1>> @@ "h2" :> <<1>>)
  /\ job.accumulator = ("h1" :> <<1, 2, 2, 1>> @@ "h2" :> <<1>>)

(***************************************************************************)
(* Frame and loop invariant of dispatch_object_processor_tasks             *)
(***************************************************************************)

\* the records of all units dispatched so far
DispatchedRecords == UNION {MapRecords(tasks[i]) : i \in 1..Len(tasks)}

\* the loop takes a pair of at least CHUNK_SIZE records
TakesLongPair ==
  /\ pc = "loop"
  /\ pos < Len(input)
  /\ Len(input[pos + 1].paths) >= CHUNK_SIZE
  /\ pos' = pos + 1

\* C18: a pair of at least CHUNK_SIZE records is dispatched as a unit of its
\* own and leaves current_batch and current_batch_size as they were; what is
\* in current_batch is in no unit yet; and when the loop is over a non-empty
\* current_batch is appended as the last unit, and nothing is appended
\* otherwise.
C18_StandaloneLeavesAccumulator ==
  /\ [](pc = "loop" => MapRecords(current_batch) \cap DispatchedRecords = {})
  /\ [][TakesLongPair =>
          /\ current_batch' = current_batch
          /\ current_batch_size' = current_batch_size
          /\ tasks' = Append(tasks, input[pos + 1].cas_id :> input[pos + 1].paths)]_vars
  /\ [][(pc = "loop" /\ pc' = "done") =>
          tasks' = IF DOMAIN current_batch # {}
                   THEN Append(tasks, current_batch) ELSE tasks]_vars

\* a returned run: a record was accumulated, then a pair of CHUNK_SIZE
\* records was dispatched alone, and the accumulated record went out after
\* it, in the last unit
C18_Witness ==
  /\ pc = "done"
  /\ Len(input) = 2
  /\ Len(input[1].paths) = 1
  /\ Len(input[2].paths) = CHUNK_SIZE
  /\ Len(tasks) = 2
  /\ tasks[1] = (input[2].cas_id :> input[2].paths)
  /\ tasks[2] = (input[1].cas_id :> input[1].paths)
  /\ tasks[2] = current_batch

\* the pair the loop took last was accumulated and the accumulator went out
\* with it
JustFlushed ==
  /\ pc = "loop"
  /\ pos > 0
  /\ Len(tasks) > 0
  /\ input[pos].paths # <<>>
  /\ Len(input[pos].paths) < CHUNK_SIZE
  /\ Elems(input[pos].paths) \subseteq MapRecords(tasks[Len(tasks)])

\* C19: loop invariant. Between two iterations current_batch_size is the sum
\* of the list lengths of current_batch and is less than CHUNK_SIZE, and
\* right after a threshold flush current_batch is empty and
\* current_batch_size is 0.
C19_LoopInvariant ==
  pc = "loop" =>
    /\ current_batch_size = MapCount(current_batch)
    /\ current_batch_size < CHUNK_SIZE
    /\ JustFlushed => (current_batch = EmptyMap /\ current_batch_size = 0)

\* the loop goes on after a threshold flush that two pairs brought about:
\* the accumulator is empty again
C19_Witness ==
  /\ JustFlushed
  /\ pos = 2
  /\ pos < Len(input)
  /\ Len(tasks) = 1
  /\ Cardinality(DOMAIN tasks[1]) = 2
  /\ DOMAIN current_batch = {}

\* C20: every unit that came from the accumulator has a key and at most
\* 2 * CHUNK_SIZE - 2 records; an empty input dispatches nothing; and when
\* no input pair has an empty list no unit is without records.
C20_AccumulatedUnitBounds ==
  /\ \A i \in 1..Len(tasks) :
       /\ DOMAIN tasks[i] # {}
       /\ ~IsStandaloneUnit(i) => MapCount(tasks[i]) <= 2 * CHUNK_SIZE - 2
  /\ input = <<>> => tasks = <<>>
  /\ (\A j \in 1..Len(input) : input[j].paths # <<>>) =>
       \A i \in 1..Len(tasks) : MapCount(tasks[i]) > 0

\* a returned run whose only unit came from the accumulator with two lists
\* of CHUNK_SIZE - 1 records
C20_Witness ==
  /\ pc = "done"
  /\ Len(input) = 2
  /\ Len(tasks) = 1
  /\ Cardinality(DOMAIN tasks[1]) = 2
  /\ \A k \in DOMAIN tasks[1] : Len(tasks[1][k]) = CHUNK_SIZE - 1

====
